---- MODULE Spec2Model ----
(***************************************************************************)
(* Model of the graph class of python-graph (src/graph/__init__.py):       *)
(* the adjacency dictionary `nodes`, the weight dictionary `weights`, and  *)
(* the mutating operations add_nodes, add_edge, add_arrow, del_edge and    *)
(* del_arrow, statement by statement, including the Python exceptions      *)
(* (KeyError, ValueError) that abort an operation half way.                *)
(***************************************************************************)
EXTENDS Integers, Sequences, FiniteSets, TLC

\* ---------------------------------------------------------------- bounds
MaxLen == 2
MaxBatch == 2

\* node identifiers the callers use; each is absent until add_nodes adds it
Node == {1, 2}
\* weights are stored and returned, never compared or computed with
Weight == {1, 2}
NodeLists == UNION {[1 .. n -> Node] : n \in 1 .. MaxBatch}

\* nodes, weights : the two dictionaries of a graph object
\* last            : the most recent call and the exception it raised
\* pnodes, pweights: the dictionaries as they were before that call
\* added           : the add_edge call, while the last call is that add_edge or a
\*                   del_edge of the same pair made right after it
\* anodes, aweights: the dictionaries as they were before that add_edge
\* ref             : the node whose list object a caller holds from get_node (0: none)
\* passed          : the identifiers passed to add_nodes so far
\* order           : for an arrows-only caller, the heads of each node's current
\*                   arrows, oldest arrow first
VARIABLES nodes, weights, last, pnodes, pweights, added, anodes, aweights, ref, passed, order

vars == <<nodes, weights, last, pnodes, pweights, added, anodes, aweights, ref, passed, order>>

\* ------------------------------------------------------- Python helpers
\* x in list
In(x, s) == \E i \in 1 .. Len(s) : s[i] = x

\* index of the first occurrence of x in s (x occurs in s)
FirstIndex(x, s) == CHOOSE i \in 1 .. Len(s) : s[i] = x /\ \A j \in 1 .. (i - 1) : s[j] # x

\* list.remove(x): drops the first occurrence of x (x occurs in s)
Remove(x, s) == [i \in 1 .. (Len(s) - 1) |-> IF i < FirstIndex(x, s) THEN s[i] ELSE s[i + 1]]

\* d[k] = val on a dictionary
DictSet(d, k, val) == [x \in (DOMAIN d) \cup {k} |-> IF x = k THEN val ELSE d[x]]

\* del(d[k]) on a dictionary that has k
DictDel(d, k) == [x \in (DOMAIN d) \ {k} |-> d[x]]

\* outcome of one call: the dictionaries it leaves and the exception, if any
Outcome(n, w, e) == [nodes |-> n, weights |-> w, raised |-> e]

NoError == "none"

\* the elements of a list
Elems(s) == {s[i] : i \in 1 .. Len(s)}

\* ------------------------------------------------------------ observers
\* __len__
len_graph == Cardinality(DOMAIN nodes)

has_node(node) == node \in DOMAIN nodes

has_arrow(u, v) == <<u, v>> \in DOMAIN weights

has_edge(u, v) == <<u, v>> \in DOMAIN weights /\ <<v, u>> \in DOMAIN weights

\* get_arrow_weight / get_edge_weight return self.weights[(u, v)], which
\* raises KeyError when the key is missing
Returned(x) == [raised |-> NoError, value |-> x]

WeightError == [raised |-> "KeyError", value |-> 0]

get_arrow_weight(u, v) == IF <<u, v>> \in DOMAIN weights THEN Returned(weights[<<u, v>>]) ELSE WeightError

get_edge_weight(u, v) == IF <<u, v>> \in DOMAIN weights THEN Returned(weights[<<u, v>>]) ELSE WeightError

\* ----------------------------------------------------------- operations
\* add_nodes that stops after the first element of nodelist
add_nodes_first_only(n, nodelist) ==
  IF nodelist = <<>> THEN n ELSE DictSet(n, Head(nodelist), <<>>)

RECURSIVE add_nodes(_, _)
add_nodes(n, nodelist) ==
  IF nodelist = <<>> THEN n
  ELSE add_nodes(DictSet(n, Head(nodelist), <<>>), Tail(nodelist))

\* add_edge without line 181: the weight of the reverse direction is not recorded
add_edge_no_reverse_weight(n, w, u, v, wt) ==
  IF u \notin DOMAIN n THEN Outcome(n, w, "KeyError")
  ELSE IF In(v, n[u]) THEN Outcome(n, w, NoError)
  ELSE LET n1 == [n EXCEPT ![u] = Append(@, v)]
       IN IF v \notin DOMAIN n1 THEN Outcome(n1, w, "KeyError")
          ELSE LET n2 == [n1 EXCEPT ![v] = Append(@, u)]
               IN Outcome(n2, DictSet(w, <<u, v>>, wt), NoError)

add_edge(n, w, u, v, wt) ==
  IF u \notin DOMAIN n THEN Outcome(n, w, "KeyError")
  ELSE IF In(v, n[u]) THEN Outcome(n, w, NoError)
  ELSE LET n1 == [n EXCEPT ![u] = Append(@, v)]
       IN IF v \notin DOMAIN n1 THEN Outcome(n1, w, "KeyError")
          ELSE LET n2 == [n1 EXCEPT ![v] = Append(@, u)]
                   w1 == DictSet(w, <<u, v>>, wt)
                   w2 == DictSet(w1, <<v, u>>, wt)
               IN Outcome(n2, w2, NoError)

\* add_arrow that inserts the new head at the front of the list
add_arrow_prepends(n, w, u, v, wt) ==
  IF u \notin DOMAIN n THEN Outcome(n, w, "KeyError")
  ELSE IF In(v, n[u]) THEN Outcome(n, w, NoError)
  ELSE Outcome([n EXCEPT ![u] = <<v>> \o @], DictSet(w, <<u, v>>, wt), NoError)

add_arrow(n, w, u, v, wt) ==
  IF u \notin DOMAIN n THEN Outcome(n, w, "KeyError")
  ELSE IF In(v, n[u]) THEN Outcome(n, w, NoError)
  ELSE Outcome([n EXCEPT ![u] = Append(@, v)], DictSet(w, <<u, v>>, wt), NoError)

\* del_edge without line 216: u stays in v's neighbor list
del_edge_keeps_reverse_entry(n, w, u, v) ==
  IF u \notin DOMAIN n THEN Outcome(n, w, "KeyError")
  ELSE IF ~In(v, n[u]) THEN Outcome(n, w, NoError)
  ELSE LET n1 == [n EXCEPT ![u] = Remove(v, @)]
       IN IF <<u, v>> \notin DOMAIN w THEN Outcome(n1, w, "KeyError")
          ELSE LET w1 == DictDel(w, <<u, v>>)
               IN IF <<v, u>> \notin DOMAIN w1 THEN Outcome(n1, w1, "KeyError")
                  ELSE Outcome(n1, DictDel(w1, <<v, u>>), NoError)

del_edge(n, w, u, v) ==
  IF u \notin DOMAIN n THEN Outcome(n, w, "KeyError")
  ELSE IF ~In(v, n[u]) THEN Outcome(n, w, NoError)
  ELSE LET n1 == [n EXCEPT ![u] = Remove(v, @)]
       IN IF v \notin DOMAIN n1 THEN Outcome(n1, w, "KeyError")
          ELSE IF ~In(u, n1[v]) THEN Outcome(n1, w, "ValueError")
          ELSE LET n2 == [n1 EXCEPT ![v] = Remove(u, @)]
               IN IF <<u, v>> \notin DOMAIN w THEN Outcome(n2, w, "KeyError")
                  ELSE LET w1 == DictDel(w, <<u, v>>)
                       IN IF <<v, u>> \notin DOMAIN w1 THEN Outcome(n2, w1, "KeyError")
                          ELSE Outcome(n2, DictDel(w1, <<v, u>>), NoError)

del_arrow(n, w, u, v) ==
  IF u \notin DOMAIN n THEN Outcome(n, w, "KeyError")
  ELSE IF ~In(v, n[u]) THEN Outcome(n, w, NoError)
  ELSE LET n1 == [n EXCEPT ![u] = Remove(v, @)]
       IN IF <<u, v>> \notin DOMAIN w THEN Outcome(n1, w, "KeyError")
          ELSE Outcome(n1, DictDel(w, <<u, v>>), NoError)

\* ------------------------------------------------------------- the store
EmptyDict == [x \in {} |-> 0]

NoCall == [op |-> "init", u |-> 0, v |-> 0, w |-> 0, nl |-> <<>>, raised |-> NoError]

Call(op, u, v, w, nl, e) == [op |-> op, u |-> u, v |-> v, w |-> w, nl |-> nl, raised |-> e]

NoRef == 0

Fits(n) == \A x \in DOMAIN n : Len(n[x]) <= MaxLen

Init ==
  /\ nodes = EmptyDict
  /\ weights = EmptyDict
  /\ last = NoCall
  /\ pnodes = EmptyDict
  /\ pweights = EmptyDict
  /\ added = NoCall
  /\ anodes = EmptyDict
  /\ aweights = EmptyDict
  /\ ref = NoRef
  /\ passed = {}
  /\ order = EmptyDict

\* the list object a caller got from get_node stays the node's list until
\* add_nodes binds a new empty list to that node
Rebind(nodelist) == IF In(ref, nodelist) THEN NoRef ELSE ref

\* the store after a call, and the record of the call
Record(r, c) ==
  /\ nodes' = r.nodes
  /\ weights' = r.weights
  /\ last' = c
  /\ pnodes' = nodes
  /\ pweights' = weights
  /\ passed' = passed \cup Elems(c.nl)

Finish(r, c) ==
  /\ Fits(r.nodes)
  /\ Record(r, c)
  /\ UNCHANGED order

\* a del_edge(u, v) made right after add_edge(u, v, wt) keeps the record of
\* that add_edge; any other call that is not an add_edge drops it
KeepAdded(op, u, v) ==
  IF op = "del_edge" /\ last.op = "add_edge" /\ last.u = u /\ last.v = v
  THEN UNCHANGED <<added, anodes, aweights>>
  ELSE added' = NoCall /\ anodes' = EmptyDict /\ aweights' = EmptyDict

AddNodes ==
  \E nodelist \in NodeLists :
    /\ Finish(Outcome(add_nodes(nodes, nodelist), weights, NoError),
              Call("add_nodes", 0, 0, 0, nodelist, NoError))
    /\ KeepAdded("add_nodes", 0, 0)
    /\ ref' = Rebind(nodelist)

AddEdge ==
  \E u \in Node, v \in Node, wt \in Weight :
    LET r == add_edge(nodes, weights, u, v, wt)
    IN /\ Finish(r, Call("add_edge", u, v, wt, <<>>, r.raised))
       /\ added' = Call("add_edge", u, v, wt, <<>>, r.raised)
       /\ anodes' = nodes
       /\ aweights' = weights
       /\ UNCHANGED ref

AddArrow ==
  \E u \in Node, v \in Node, wt \in Weight :
    LET r == add_arrow(nodes, weights, u, v, wt)
    IN /\ Finish(r, Call("add_arrow", u, v, wt, <<>>, r.raised))
       /\ KeepAdded("add_arrow", u, v)
       /\ UNCHANGED ref

DelEdge ==
  \E u \in Node, v \in Node :
    LET r == del_edge(nodes, weights, u, v)
    IN /\ Finish(r, Call("del_edge", u, v, 0, <<>>, r.raised))
       /\ KeepAdded("del_edge", u, v)
       /\ UNCHANGED ref

DelArrow ==
  \E u \in Node, v \in Node :
    LET r == del_arrow(nodes, weights, u, v)
    IN /\ Finish(r, Call("del_arrow", u, v, 0, <<>>, r.raised))
       /\ KeepAdded("del_arrow", u, v)
       /\ UNCHANGED ref

Next == AddNodes \/ AddEdge \/ AddArrow \/ DelEdge \/ DelArrow

Spec == Init /\ [][Next]_vars

\* ------------------------------------- callers of an undirected graph
\* a caller that follows the docstrings of add_edge and del_edge ("should not
\* be used in directed graphs") and never calls add_arrow or del_arrow
NextEdges == AddNodes \/ AddEdge \/ DelEdge

SpecEdges == Init /\ [][NextEdges]_vars

\* ---------------------------------------- callers of a directed graph
\* a caller that adds each node once and then manages arrows between present
\* nodes with add_arrow (default weight) and del_arrow only
OrderNode == {1, 2, 3}

OrderMaxLen == 3

DefaultWeight == 1

OrderNodeLists == UNION {[1 .. n -> OrderNode] : n \in 1 .. MaxBatch}

FitsOrder(n) == \A x \in DOMAIN n : Len(n[x]) <= OrderMaxLen

OrderAddNodes ==
  \E nodelist \in OrderNodeLists :
    /\ Elems(nodelist) \cap DOMAIN nodes = {}
    /\ Record(Outcome(add_nodes(nodes, nodelist), weights, NoError),
              Call("add_nodes", 0, 0, 0, nodelist, NoError))
    /\ KeepAdded("add_nodes", 0, 0)
    /\ order' = [x \in (DOMAIN order) \cup Elems(nodelist) |-> IF x \in DOMAIN order THEN order[x] ELSE <<>>]
    /\ ref' = Rebind(nodelist)

OrderAddArrow ==
  \E u \in DOMAIN nodes, v \in DOMAIN nodes :
    LET r == add_arrow(nodes, weights, u, v, DefaultWeight)
    IN /\ FitsOrder(r.nodes)
       /\ Record(r, Call("add_arrow", u, v, DefaultWeight, <<>>, r.raised))
       /\ KeepAdded("add_arrow", u, v)
       /\ order' = IF In(v, order[u]) THEN order ELSE [order EXCEPT ![u] = Append(@, v)]
       /\ UNCHANGED ref

OrderDelArrow ==
  \E u \in DOMAIN nodes, v \in DOMAIN nodes :
    LET r == del_arrow(nodes, weights, u, v)
    IN /\ Record(r, Call("del_arrow", u, v, 0, <<>>, r.raised))
       /\ KeepAdded("del_arrow", u, v)
       /\ order' = [order EXCEPT ![u] = SelectSeq(@, LAMBDA x : x # v)]
       /\ UNCHANGED ref

NextOrder == OrderAddNodes \/ OrderAddArrow \/ OrderDelArrow

SpecOrder == Init /\ [][NextOrder]_vars

\* --------------------------------------------- callers holding a get_node list
\* get_node returns self.nodes[node] itself (KeyError when the node is absent)
GetNode ==
  \E node \in Node :
    /\ Finish(Outcome(nodes, weights, IF node \in DOMAIN nodes THEN NoError ELSE "KeyError"),
              Call("get_node", node, 0, 0, <<>>, IF node \in DOMAIN nodes THEN NoError ELSE "KeyError"))
    /\ KeepAdded("get_node", node, 0)
    /\ ref' = IF node \in DOMAIN nodes THEN node ELSE ref

\* the caller appends to the list it was handed
CallerAppend ==
  \E x \in Node :
    /\ ref # NoRef
    /\ Finish(Outcome([nodes EXCEPT ![ref] = Append(@, x)], weights, NoError),
              Call("caller_append", ref, x, 0, <<>>, NoError))
    /\ KeepAdded("caller_append", ref, x)
    /\ UNCHANGED ref

\* the caller removes an element from the list it was handed
CallerRemove ==
  \E x \in Node :
    /\ ref # NoRef
    /\ In(x, nodes[ref])
    /\ Finish(Outcome([nodes EXCEPT ![ref] = Remove(x, @)], weights, NoError),
              Call("caller_remove", ref, x, 0, <<>>, NoError))
    /\ KeepAdded("caller_remove", ref, x)
    /\ UNCHANGED ref

NextAlias == Next \/ GetNode \/ CallerAppend \/ CallerRemove

SpecAlias == Init /\ [][NextAlias]_vars

TypeOK ==
  /\ DOMAIN nodes \subseteq Node
  /\ DOMAIN weights \subseteq Node \X Node
  /\ Fits(nodes)

\* ------------------------------------------------------------ properties
\* the last call was op(u, v, ...) on two nodes that were both present
OnPresent(op) == last.op = op /\ last.u \in DOMAIN pnodes /\ last.v \in DOMAIN pnodes

\* both directions of (u, v) exist and carry weight wt
EdgeWith(u, v, wt) ==
  /\ has_edge(u, v)
  /\ has_edge(v, u)
  /\ get_edge_weight(u, v) = Returned(wt)
  /\ get_edge_weight(v, u) = Returned(wt)

\* C1 as stated: after add_edge(u, v, w) on present nodes, in any state,
\* has_edge(u, v), has_edge(v, u) and both edge weights equal w.
C1_Original == OnPresent("add_edge") => EdgeWith(last.u, last.v, last.w)

\* C1: after add_edge(u, v, w) on present nodes u, v where v was not in u's
\* neighbor list before the call, has_edge(u, v) and has_edge(v, u) hold and
\* get_edge_weight(u, v) = get_edge_weight(v, u) = w.
C1_AddEdgeSymmetric ==
  (OnPresent("add_edge") /\ ~In(last.v, pnodes[last.u])) => EdgeWith(last.u, last.v, last.w)

\* add_edge(u, v, w) acted on distinct present nodes and replaced the weight
\* of an older reverse arrow v -> u
C1_Witness ==
  /\ OnPresent("add_edge")
  /\ last.u # last.v
  /\ ~In(last.v, pnodes[last.u])
  /\ <<last.v, last.u>> \in DOMAIN pweights
  /\ pweights[<<last.v, last.u>>] # last.w
  /\ last.raised = NoError

\* C2 as stated: after add_arrow(u, v, w) on present nodes has_arrow(u, v)
\* holds, and for u # v has_arrow(v, u) is what it was before the call.
C2_Original ==
  OnPresent("add_arrow") =>
    /\ has_arrow(last.u, last.v)
    /\ (last.u # last.v => (has_arrow(last.v, last.u) <=> <<last.v, last.u>> \in DOMAIN pweights))

\* the last call was del_edge(u, v), made right after add_edge(u, v, w), on
\* nodes that were present
DelAfterAdd ==
  /\ last.op = "del_edge"
  /\ added.op = "add_edge"
  /\ added.u = last.u
  /\ added.v = last.v
  /\ last.u \in DOMAIN anodes
  /\ last.v \in DOMAIN anodes

\* nothing is left of the pair (u, v) in either direction
BothGone(u, v) ==
  /\ ~has_arrow(u, v)
  /\ ~has_arrow(v, u)
  /\ ~has_edge(u, v)
  /\ ~In(v, nodes[u])
  /\ ~In(u, nodes[v])
  /\ get_edge_weight(u, v) = WeightError
  /\ get_edge_weight(v, u) = WeightError
  /\ get_arrow_weight(u, v) = WeightError
  /\ get_arrow_weight(v, u) = WeightError

\* C3 as stated: del_edge(u, v) right after add_edge(u, v, w) on present
\* nodes leaves no arrow, no neighbor-list entry and no weight in either direction.
C3_Original == DelAfterAdd => BothGone(last.u, last.v)

\* C3: del_edge(u, v) right after add_edge(u, v, w) on present nodes, where
\* before the add_edge v was not in u's neighbor list and u was not in v's,
\* leaves no arrow, no neighbor-list entry and no weight in either direction.
C3_DelEdgeRemovesBoth ==
  (DelAfterAdd /\ ~In(last.v, anodes[last.u]) /\ ~In(last.u, anodes[last.v]))
    => BothGone(last.u, last.v)

\* add_edge(u, v, w) created the edge between distinct nodes and
\* del_edge(u, v) then removed it
C3_Witness ==
  /\ DelAfterAdd
  /\ last.u # last.v
  /\ ~In(last.v, anodes[last.u])
  /\ ~In(last.u, anodes[last.v])
  /\ In(last.v, pnodes[last.u])
  /\ In(last.u, pnodes[last.v])
  /\ pweights[<<last.u, last.v>>] = added.w
  /\ last.raised = NoError

\* C4 as stated: add_arrow(u, v, w') and add_edge(u, v, w') called while
\* has_arrow(u, v) holds change no neighbor list and no weight.
C4_Original ==
  (last.op \in {"add_arrow", "add_edge"} /\ <<last.u, last.v>> \in DOMAIN pweights)
    => (nodes = pnodes /\ weights = pweights)

\* C5 as stated: v is in u's neighbor list exactly when a weight entry for
\* (u, v) exists.
C5_Original ==
  \A u \in Node, v \in Node :
    (u \in DOMAIN nodes /\ In(v, nodes[u])) <=> <<u, v>> \in DOMAIN weights

\* C6 as stated: add_edge / add_arrow with an absent endpoint raise and leave
\* the store as it was.
C6_Original ==
  (last.op \in {"add_arrow", "add_edge"} /\ (last.u \notin DOMAIN pnodes \/ last.v \notin DOMAIN pnodes))
    => (last.raised # NoError /\ nodes = pnodes /\ weights = pweights)

\* C7 as stated: del_arrow(u, v) without the arrow and del_edge(u, v) without
\* the edge, on present nodes, do not raise and change nothing.
C7_Original ==
  (\/ OnPresent("del_arrow") /\ <<last.u, last.v>> \notin DOMAIN pweights
   \/ OnPresent("del_edge") /\ ~(<<last.u, last.v>> \in DOMAIN pweights /\ <<last.v, last.u>> \in DOMAIN pweights))
    => (last.raised = NoError /\ nodes = pnodes /\ weights = pweights)

\* C8 as stated: after add_nodes re-adds a present node u, get_node(u) is
\* empty, no arrow from or to u exists and u is in no neighbor list.
C8_Original ==
  last.op = "add_nodes" =>
    \A u \in DOMAIN pnodes :
      In(u, last.nl) =>
        /\ nodes[u] = <<>>
        /\ \A v \in Node :
             /\ ~has_arrow(u, v)
             /\ ~has_arrow(v, u)
             /\ (v \in DOMAIN nodes => ~In(u, nodes[v]))

\* C9 as stated: what a caller does to the list get_node returned does not
\* change the store's neighbor lists.
C9_Original == last.op \in {"caller_append", "caller_remove"} => nodes = pnodes

\* C10 as stated: every identifier in a neighbor list and both endpoints of
\* every weight key are in the node set.
C10_Original ==
  /\ \A u \in DOMAIN nodes : \A i \in 1 .. Len(nodes[u]) : nodes[u][i] \in DOMAIN nodes
  /\ \A k \in DOMAIN weights : k[1] \in DOMAIN nodes /\ k[2] \in DOMAIN nodes

\* C11 as stated: with add_nodes, add_edge and del_edge only, weight entries
\* exist in both directions or in none, with equal weights, and v is in u's
\* neighbor list exactly when u is in v's.
C11_Original ==
  \A u \in Node, v \in Node :
    /\ <<u, v>> \in DOMAIN weights <=> <<v, u>> \in DOMAIN weights
    /\ <<u, v>> \in DOMAIN weights => weights[<<u, v>>] = weights[<<v, u>>]
    /\ (u \in DOMAIN nodes /\ In(v, nodes[u])) <=> (v \in DOMAIN nodes /\ In(u, nodes[v]))

\* C14 as stated: get_edge_weight(u, v) fails whenever has_edge(u, v) is false.
C14_Original ==
  \A u \in Node, v \in Node : ~has_edge(u, v) => get_edge_weight(u, v) = WeightError

\* number of occurrences of x in list s
Count(x, s) == Cardinality({i \in 1 .. Len(s) : s[i] = x})

\* C15 as stated: no neighbor list contains the same node more than once.
C15_Original == \A u \in DOMAIN nodes : \A x \in Node : Count(x, nodes[u]) <= 1

\* C16 as stated: from a state where u and v are present, neither list
\* contains the other node and no weight exists for (u, v) or (v, u),
\* add_edge(u, v, w); del_edge(u, v) does not raise and restores the
\* neighbor lists and the weight table exactly.
C16_Original ==
  (/\ DelAfterAdd
   /\ ~In(last.v, anodes[last.u])
   /\ ~In(last.u, anodes[last.v])
   /\ <<last.u, last.v>> \notin DOMAIN aweights
   /\ <<last.v, last.u>> \notin DOMAIN aweights)
    => (/\ added.raised = NoError
        /\ last.raised = NoError
        /\ nodes = anodes
        /\ weights = aweights)

\* C12: for a caller that manages arrows between present nodes with
\* add_arrow and del_arrow only, every neighbor list is the list of the heads
\* of the node's current arrows in the order in which those arrows were added,
\* and these heads are exactly the v with has_arrow(u, v).
C12_InsertionOrder ==
  /\ DOMAIN order = DOMAIN nodes
  /\ \A u \in DOMAIN nodes :
       /\ nodes[u] = order[u]
       /\ \A v \in OrderNode : has_arrow(u, v) <=> In(v, order[u])

\* del_arrow(u, v) removed the middle one of three heads, which were not in
\* ascending order, and the two others kept their places
C12_Witness ==
  /\ last.op = "del_arrow"
  /\ last.u \in DOMAIN pnodes
  /\ Len(pnodes[last.u]) = 3
  /\ pnodes[last.u][2] = last.v
  /\ pnodes[last.u][1] > pnodes[last.u][3]
  /\ nodes[last.u] = <<pnodes[last.u][1], pnodes[last.u][3]>>

\* C13: no identifier leaves the node set, an add_edge, add_arrow, del_edge
\* or del_arrow that does not raise leaves the node set as it was, and
\* len(graph) is the number of distinct identifiers passed to add_nodes.
C13_NodeSetAppendOnly ==
  /\ DOMAIN pnodes \subseteq DOMAIN nodes
  /\ (last.op \in {"add_edge", "add_arrow", "del_edge", "del_arrow"} /\ last.raised = NoError)
       => DOMAIN nodes = DOMAIN pnodes
  /\ len_graph = Cardinality(passed)

\* add_nodes was given a list of two identifiers, one of them already present
\* with an arrow, and the count grew by one only
C13_Witness ==
  /\ last.op = "add_nodes"
  /\ Len(last.nl) = 2
  /\ last.nl[1] \in DOMAIN pnodes
  /\ last.nl[2] \notin DOMAIN pnodes
  /\ pweights # EmptyDict
  /\ len_graph = Cardinality(DOMAIN pnodes) + 1

====
